---- MODULE Spec2Model ----
(***************************************************************************)
(* A model of the filesystem commit protocol and the file stream of        *)
(* iceberg-rs: Table (src/table/mod.rs), Transaction (src/transaction/     *)
(* mod.rs), Operation (src/transaction/operation.rs) and DataFileStream    *)
(* (src/table/files.rs).                                                   *)
(*                                                                         *)
(* One object store is shared by the Table handles A and B.  Every await   *)
(* of Transaction::commit is a step of its own, so the commits of the two  *)
(* handles interleave at exactly the points where the code suspends.       *)
(*                                                                         *)
(* Further specifications cover the metastore commit (src/catalog/mod.rs), *)
(* the metadata documents and the upgrade from version 1                   *)
(* (src/model/metadata.rs), TableBuilder (src/table/table_builder.rs),     *)
(* TableIdentifier (src/catalog/table_identifier.rs), Decimal              *)
(* (src/model/decimal.rs), the Avro record of a ManifestEntry              *)
(* (src/model/manifest.rs), Table::new_snapshot and the body of            *)
(* Operation::execute.                                                     *)
(***************************************************************************)
EXTENDS Naturals, Integers, Sequences, FiniteSets, TLC

\* Bounds of the model.
MaxSeq == 2
MaxUuid == 2
MaxOps == 1
MaxQueued == 2
MaxSnapshots == 2
MaxSnapshotId == 2
MaxSpecs == 3
MaxLen == 5
MaxManifests == 3
MaxEntries == 2

Handles == {"A", "B"}

\* The schemas and partition spec ids a caller passes to update_schema and
\* update_spec.
Schemas == {"schema0", "schema1"}
SpecIds == {1, 2}

\* The path vectors the caller holding handle h passes to fast_append: each
\* writer appends data files of its own.
PathChoices(h) == IF h = "A" THEN {<<"a", "b">>} ELSE {<<"c">>}

VARIABLES
    store,        \* the object store: path -> object
    table,        \* handle -> Table {metadata, metadata_location, manifests}
    txn,          \* handle -> the handle's Transaction and where its commit stands
    next_uuid,    \* the number of Uuid::new_v4 values drawn so far
    last_load,    \* outcome of the latest load_file_system_table of a caller
    overwritten,  \* history: paths that held an object when a commit wrote them
    appended,     \* history: the paths of the committed fast_appends, in commit order
    stream,       \* the DataFileStream a caller of files() polls
    catalog,      \* the catalog's record of the table and the calls it received
    call          \* the latest call of a function of the data model, with its result

vars == <<store, table, txn, next_uuid, last_load, overwritten, appended, stream, catalog, call>>

----------------------------------------------------------------------------
\* Object paths below <location>/metadata/.

\* <location>/metadata/v<n>.metadata.json
final_path(n) == [kind |-> "v", id |-> n]

\* <location>/metadata/<uuid>.metadata.json
temp_path(u) == [kind |-> "uuid", id |-> u]

\* <location>/metadata/snap-<snapshot_id><uuid>.avro: the snapshot id tells
\* these paths apart, the uuid is left out of the model.
snap_path(n) == [kind |-> "snap", id |-> n]

\* <list path minus .avro>-m<i>.avro
manifest_path(i) == [kind |-> "avro", id |-> i]

\* <location>/metadata/<version>-<uuid>.metadata.json: the uuid tells these
\* paths apart, the version prefix is left out of the model.
metastore_path(u) == [kind |-> "ms", id |-> u]

\* name.ends_with(".metadata.json")
ends_with_metadata_json(p) == p.kind \in {"v", "uuid", "ms"}

\* name.trim_start_matches('v').trim_end_matches(".metadata.json").parse::<i64>()
\* "v7.metadata.json" gives 7; a hyphenated uuid is no i64 and gives an error.
parse_version(p) ==
    IF p.kind = "v" THEN [ok |-> TRUE, version |-> p.id]
    ELSE [ok |-> FALSE, version |-> 0]

Max(S) == CHOOSE x \in S : \A y \in S : y <= x

----------------------------------------------------------------------------
\* The object store.

put(s, p, obj) == [q \in DOMAIN s \cup {p} |-> IF q = p THEN obj ELSE s[q]]

delete(s, p) == [q \in DOMAIN s \ {p} |-> s[q]]

\* An overwriting copy: what copy_if_not_exists would be without its check.
copy_overwrite(s, from, to) ==
    [ok |-> TRUE, store |-> put(s, to, s[from])]

copy_if_not_exists(s, from, to) ==
    IF to \in DOMAIN s THEN [ok |-> FALSE, store |-> s]
    ELSE [ok |-> TRUE, store |-> put(s, to, s[from])]

----------------------------------------------------------------------------
\* Metadata and its JSON document.

\* serde_json::to_string(&table.metadata())
to_string(m) ==
    [format_version |-> 2,
     last_sequence_number_json |-> m.last_sequence_number,
     current_schema_json |-> m.current_schema,
     default_spec_id_json |-> m.default_spec_id,
     current_snapshot_id_json |-> m.current_snapshot_id,
     snapshots_json |-> m.snapshots]

\* serde_json::from_str::<Metadata>
from_str(doc) ==
    [last_sequence_number |-> doc.last_sequence_number_json,
     current_schema |-> doc.current_schema_json,
     default_spec_id |-> doc.default_spec_id_json,
     current_snapshot_id |-> doc.current_snapshot_id_json,
     snapshots |-> doc.snapshots_json]

\* Metadata::manifest_list: the manifest list of the latest snapshot, if any.
manifest_list(m) ==
    IF m.snapshots = <<>> THEN [some |-> FALSE]
    ELSE [some |-> TRUE, path |-> m.snapshots[Len(m.snapshots)].manifest_list]

get_manifests(m, s) ==
    IF ~manifest_list(m).some THEN [ok |-> FALSE]
    ELSE IF manifest_list(m).path \notin DOMAIN s THEN [ok |-> FALSE]
    ELSE [ok |-> TRUE, manifests |-> s[manifest_list(m).path]]

\* .unwrap_or_default() on the result of get_manifests
unwrap_or_default(r) == IF r.ok THEN r.manifests ELSE <<>>

\* The version the fold over the listing of <location>/metadata/ ends with:
\* an error as soon as one *.metadata.json name does not parse, else the
\* largest version seen, starting from 0.
fold_version(s) ==
    LET names == {p \in DOMAIN s : ends_with_metadata_json(p)} IN
    IF \E p \in names : ~parse_version(p).ok THEN [ok |-> FALSE, version |-> 0]
    ELSE [ok |-> TRUE,
          version |-> Max({0} \cup {parse_version(p).version : p \in names})]

\* What table.catalog(), table.identifier() and table.object_store() return
\* for the two kinds of table: Some is TRUE, None is FALSE.
FileSystem == [catalog |-> FALSE, identifier |-> FALSE, object_store |-> TRUE]
Metastore == [catalog |-> TRUE, identifier |-> TRUE, object_store |-> FALSE]

load_file_system_table(s) ==
    LET v == fold_version(s) IN
    IF ~v.ok THEN [ok |-> FALSE]
    ELSE IF final_path(v.version) \notin DOMAIN s THEN [ok |-> FALSE]
    ELSE LET metadata == from_str(s[final_path(v.version)]) IN
         [ok |-> TRUE,
          table |-> [metadata |-> metadata,
                     backing |-> FileSystem,
                     metadata_location |-> final_path(v.version),
                     manifests |-> unwrap_or_default(get_manifests(metadata, s))]]

\* Table::new_metastore_table(identifier, catalog, metadata, metadata_location)
new_metastore_table(metadata, metadata_location, s) ==
    [metadata |-> metadata,
     backing |-> Metastore,
     metadata_location |-> metadata_location,
     manifests |-> unwrap_or_default(get_manifests(metadata, s))]

\* Catalog::update_table(identifier, metadata_file_location,
\* previous_metadata_file_location): the catalog changes its pointer when the
\* previous location is the one it records, and returns the table at the
\* new location; else it rejects the call.  It keeps the calls it received.
update_table(c, s, metadata_file_location, previous_metadata_file_location) ==
    LET ok == c.location = previous_metadata_file_location
        received == Append(c.received,
                           [metadata_file_location |-> metadata_file_location,
                            previous_metadata_file_location |->
                                previous_metadata_file_location,
                            ok |-> ok])
    IN  IF ok
        THEN [ok |-> TRUE,
              catalog |-> [location |-> metadata_file_location, calls |-> c.calls + 1,
                           received |-> received],
              table |-> new_metastore_table(from_str(s[metadata_file_location]),
                                            metadata_file_location, s)]
        ELSE [ok |-> FALSE,
              catalog |-> [c EXCEPT !.calls = @ + 1, !.received = received]]

\* The tables of the model are format-version 2, as TableBuilder creates
\* them: the V2 arm of the match.
increment_sequence_number(t) ==
    [t EXCEPT !.metadata.last_sequence_number = @ + 1]

\* Table::new_snapshot, the V2 arm, with a snapshot that names no parent.
new_snapshot_without_parent(t, snapshot_id) ==
    LET metadata == t.metadata
        snapshot == [snapshot_id |-> snapshot_id,
                     parent_snapshot_id |-> <<>>,
                     sequence_number |-> metadata.last_sequence_number + 1,
                     manifest_list |-> snap_path(snapshot_id)]
    IN  [t EXCEPT !.metadata.snapshots = Append(@, snapshot),
                  !.metadata.current_snapshot_id = <<snapshot_id>>]

\* Table::new_snapshot, the V2 arm; snapshot_id is what getrandom gave.  A
\* table without snapshots has the empty list here, so the two arms of
\* 'if let Some(snapshots)' are one.
new_snapshot(t, snapshot_id) ==
    LET metadata == t.metadata
        snapshot == [snapshot_id |-> snapshot_id,
                     parent_snapshot_id |-> metadata.current_snapshot_id,
                     sequence_number |-> metadata.last_sequence_number + 1,
                     manifest_list |-> snap_path(snapshot_id)]
    IN  [t EXCEPT !.metadata.snapshots = Append(@, snapshot),
                  !.metadata.current_snapshot_id = <<snapshot_id>>]

\* Metadata::current_snapshot: the first snapshot with the current id.
current_snapshot(m) ==
    IF m.current_snapshot_id = <<>> THEN <<>>
    ELSE LET found == {i \in 1..Len(m.snapshots) :
                          m.snapshots[i].snapshot_id = m.current_snapshot_id[1]}
         IN  IF found = {} THEN <<>>
             ELSE <<m.snapshots[CHOOSE i \in found : \A j \in found : i <= j]>>

\* TableBuilder::new_filesystem_table(..).commit(): metadata with
\* last_sequence_number 0, the schema given to the builder, the default
\* partition spec 1 and no snapshot, written to v0.metadata.json.
new_filesystem_table ==
    [metadata |-> [last_sequence_number |-> 0, current_schema |-> "schema0",
                   default_spec_id |-> 1, current_snapshot_id |-> <<>>,
                   snapshots |-> <<>>],
     backing |-> FileSystem,
     metadata_location |-> final_path(0),
     manifests |-> <<>>]

----------------------------------------------------------------------------
\* Transactions.

NoTxn ==
    [pc |-> "idle", operations |-> <<>>, uuid |-> 0, version |-> 0,
     result |-> "none", before |-> new_filesystem_table,
     loaded |-> 0, latest |-> 0, canonical |-> FALSE]

\* No catalog call was made and no function of the data model applied.
NoCatalog == [location |-> final_path(0), calls |-> 0, received |-> <<>>]

NoCall == [fn |-> "none"]

NoStream ==
    [open |-> FALSE, manifest_list_iter |-> <<>>,
     manifest_iter |-> [some |-> FALSE, rest |-> <<>>],
     yielded |-> <<>>, ended |-> FALSE, late |-> <<>>, filter |-> [some |-> FALSE]]

\* The paths of the queued NewFastAppend operations, in queue order.
RECURSIVE queued_paths(_)
queued_paths(operations) ==
    IF operations = <<>> THEN <<>>
    ELSE (IF Head(operations).op = "NewFastAppend" THEN Head(operations).paths ELSE <<>>)
         \o queued_paths(Tail(operations))

\* The highest canonical version in the store.
latest_version(s) == Max({p.id : p \in {q \in DOMAIN s : q.kind = "v"}})

Init ==
    /\ store = (final_path(0) :> to_string(new_filesystem_table.metadata))
    /\ table = [h \in Handles |-> new_filesystem_table]
    /\ txn = [h \in Handles |-> NoTxn]
    /\ next_uuid = 0
    /\ last_load = [result |-> "none", during |-> FALSE]
    /\ overwritten = {}
    /\ appended = <<>>
    /\ stream = NoStream
    /\ catalog = NoCatalog
    /\ call = NoCall

\* Table::new_transaction -> Transaction::new: the sequence number of the
\* handle's own metadata is incremented in place.
new_transaction(h) ==
    /\ txn[h].pc = "idle"
    /\ table[h].metadata.last_sequence_number < MaxSeq
    /\ table' = [table EXCEPT ![h] = increment_sequence_number(@)]
    /\ txn' = [txn EXCEPT ![h] = [NoTxn EXCEPT !.pc = "open", !.before = table[h]]]
    /\ UNCHANGED <<store, next_uuid, last_load, overwritten, appended, stream, catalog, call>>

\* Transaction::fast_append(paths): queues Operation::NewFastAppend(paths).
fast_append(h, paths) ==
    /\ txn[h].pc = "open"
    /\ Len(txn[h].operations) < MaxOps
    /\ txn' = [txn EXCEPT ![h].operations =
                   Append(@, [op |-> "NewFastAppend", paths |-> paths])]
    /\ UNCHANGED <<store, table, next_uuid, last_load, overwritten, appended, stream, catalog, call>>

\* Transaction::update_schema(schema): queues Operation::UpdateSchema(schema).
update_schema(h, schema) ==
    /\ txn[h].pc = "open"
    /\ Len(txn[h].operations) < MaxQueued
    /\ txn' = [txn EXCEPT ![h].operations =
                   Append(@, [op |-> "UpdateSchema", schema |-> schema])]
    /\ UNCHANGED <<store, table, next_uuid, last_load, overwritten, appended, stream, catalog, call>>

\* Transaction::update_spec(spec_id): queues Operation::UpdateSpec(spec_id).
update_spec(h, spec_id) ==
    /\ txn[h].pc = "open"
    /\ Len(txn[h].operations) < MaxQueued
    /\ txn' = [txn EXCEPT ![h].operations =
                   Append(@, [op |-> "UpdateSpec", spec_id |-> spec_id])]
    /\ UNCHANGED <<store, table, next_uuid, last_load, overwritten, appended, stream, catalog, call>>

\* table.new_snapshot() on the table of the open transaction, with the
\* snapshot id drawn at random.
table_new_snapshot(h, snapshot_id) ==
    /\ txn[h].pc = "open"
    /\ Len(table[h].metadata.snapshots) < MaxSnapshots
    /\ table' = [table EXCEPT ![h] = new_snapshot(@, snapshot_id)]
    /\ UNCHANGED <<store, txn, next_uuid, last_load, overwritten, appended, stream, catalog, call>>

\* The Transaction is dropped without commit.
abandon(h) ==
    /\ txn[h].pc = "open"
    /\ txn' = [txn EXCEPT ![h].pc = "idle", ![h].result = "Abandoned"]
    /\ UNCHANGED <<store, table, next_uuid, last_load, overwritten, appended, stream, catalog, call>>

\* Operation::execute is an async fn.  The fold of Transaction::commit calls
\* it inside a plain closure and drops the future it returns without ever
\* polling it, so no statement of its body runs: the table the fold returns
\* is the table it was given.
fold_operations(t, operations) == t

\* The arm the match of Transaction::commit takes on (table.catalog(),
\* table.identifier(), table.object_store()): the arms are tried in order.
commit_arm(t) ==
    IF t.backing.catalog /\ t.backing.identifier THEN "metastore"
    ELSE IF t.backing.object_store THEN "filesystem"
    ELSE "error"

\* Transaction::commit, filesystem arm, up to and including the put of the
\* temporary object.
commit_put(h) ==
    /\ txn[h].pc = "open"
    /\ commit_arm(fold_operations(table[h], txn[h].operations)) = "filesystem"
    /\ next_uuid < MaxUuid
    /\ LET t == fold_operations(table[h], txn[h].operations)
           uuid == next_uuid + 1
           version == t.metadata.last_sequence_number
           metadata_json == to_string(t.metadata)
       IN /\ store' = put(store, temp_path(uuid), metadata_json)
          /\ overwritten' = overwritten \cup ({temp_path(uuid)} \cap DOMAIN store)
          /\ table' = [table EXCEPT ![h] = t]
          /\ txn' = [txn EXCEPT ![h].pc = "put", ![h].uuid = uuid,
                                ![h].version = version]
          /\ next_uuid' = uuid
    /\ UNCHANGED <<last_load, appended, stream, catalog, call>>

\* Transaction::commit, filesystem arm: the put of the temporary object fails
\* and the error ends the commit.
commit_put_err(h) ==
    /\ txn[h].pc = "open"
    /\ commit_arm(fold_operations(table[h], txn[h].operations)) = "filesystem"
    /\ next_uuid < MaxUuid
    /\ LET t == fold_operations(table[h], txn[h].operations)
           uuid == next_uuid + 1
       IN /\ table' = [table EXCEPT ![h] = t]
          /\ txn' = [txn EXCEPT ![h].pc = "idle", ![h].result = "PutErr",
                                ![h].uuid = uuid,
                                ![h].version = t.metadata.last_sequence_number]
          /\ next_uuid' = uuid
    /\ UNCHANGED <<store, last_load, overwritten, appended, stream, catalog, call>>

\* object_store.copy_if_not_exists(&temp_path, &final_path): an error ends
\* the commit at once, the temporary object stays.  A copy that succeeds
\* makes v<version>.metadata.json of this transaction the canonical version.
commit_copy(h) ==
    /\ txn[h].pc = "put"
    /\ LET to == final_path(txn[h].version)
           r == copy_if_not_exists(store, temp_path(txn[h].uuid), to)
       IN IF r.ok
          THEN /\ store' = r.store
               /\ overwritten' = overwritten \cup ({to} \cap DOMAIN store)
               /\ appended' = appended \o queued_paths(txn[h].operations)
               /\ txn' = [txn EXCEPT ![h].pc = "copied", ![h].canonical = TRUE,
                              ![h].loaded = table[h].metadata_location.id,
                              ![h].latest = latest_version(store)]
          ELSE /\ txn' = [txn EXCEPT ![h].pc = "idle", ![h].result = "Conflict"]
               /\ UNCHANGED <<store, overwritten, appended>>
    /\ UNCHANGED <<table, next_uuid, last_load, stream, catalog, call>>

\* object_store.delete(&temp_path)
commit_delete(h) ==
    /\ txn[h].pc = "copied"
    /\ store' = delete(store, temp_path(txn[h].uuid))
    /\ txn' = [txn EXCEPT ![h].pc = "deleted"]
    /\ UNCHANGED <<table, next_uuid, last_load, overwritten, appended, stream, catalog, call>>

\* object_store.delete(&temp_path) fails: the error ends the commit, the
\* temporary object stays.
commit_delete_err(h) ==
    /\ txn[h].pc = "copied"
    /\ txn' = [txn EXCEPT ![h].pc = "idle", ![h].result = "DeleteErr"]
    /\ UNCHANGED <<store, table, next_uuid, last_load, overwritten, appended, stream, catalog, call>>

\* Table::load_file_system_table(location, object_store).await?; *table = new_table
commit_reload(h) ==
    /\ txn[h].pc = "deleted"
    /\ LET r == load_file_system_table(store) IN
       IF r.ok
       THEN /\ table' = [table EXCEPT ![h] = r.table]
            /\ txn' = [txn EXCEPT ![h].pc = "idle", ![h].result = "Ok"]
       ELSE /\ txn' = [txn EXCEPT ![h].pc = "idle", ![h].result = "LoadErr"]
            /\ UNCHANGED table
    /\ UNCHANGED <<store, next_uuid, last_load, overwritten, appended, stream, catalog, call>>

\* Transaction::commit, metastore arm, up to and including the put of the
\* metadata file.
commit_metastore_put(h) ==
    /\ txn[h].pc = "open"
    /\ commit_arm(fold_operations(table[h], txn[h].operations)) = "metastore"
    /\ next_uuid < MaxUuid
    /\ LET t == fold_operations(table[h], txn[h].operations)
           transaction_uuid == next_uuid + 1
           version == t.metadata.last_sequence_number
           metadata_json == to_string(t.metadata)
       IN /\ store' = put(store, metastore_path(transaction_uuid), metadata_json)
          /\ overwritten' = overwritten
                                \cup ({metastore_path(transaction_uuid)} \cap DOMAIN store)
          /\ table' = [table EXCEPT ![h] = t]
          /\ txn' = [txn EXCEPT ![h].pc = "metastore_put",
                                ![h].uuid = transaction_uuid,
                                ![h].version = version]
          /\ next_uuid' = transaction_uuid
    /\ UNCHANGED <<last_load, appended, stream, catalog, call>>

\* The put of the metastore arm fails: the error is returned at once.  The
\* uuid was drawn and the path made before the put.
commit_metastore_put_err(h) ==
    /\ txn[h].pc = "open"
    /\ commit_arm(fold_operations(table[h], txn[h].operations)) = "metastore"
    /\ next_uuid < MaxUuid
    /\ LET t == fold_operations(table[h], txn[h].operations)
           transaction_uuid == next_uuid + 1
       IN /\ table' = [table EXCEPT ![h] = t]
          /\ txn' = [txn EXCEPT ![h].pc = "idle", ![h].result = "PutErr",
                                ![h].uuid = transaction_uuid,
                                ![h].version = t.metadata.last_sequence_number]
          /\ next_uuid' = transaction_uuid
    /\ UNCHANGED <<store, last_load, overwritten, appended, stream, catalog, call>>

\* commit_update_table with the new location given as the previous one too.
commit_update_table_same_location(h) ==
    /\ txn[h].pc = "metastore_put"
    /\ LET r == update_table(catalog, store, metastore_path(txn[h].uuid),
                             metastore_path(txn[h].uuid))
       IN /\ catalog' = r.catalog
          /\ IF r.ok
             THEN /\ table' = [table EXCEPT ![h] = r.table]
                  /\ txn' = [txn EXCEPT ![h].pc = "idle", ![h].result = "Ok"]
             ELSE /\ txn' = [txn EXCEPT ![h].pc = "idle", ![h].result = "Conflict"]
                  /\ UNCHANGED table
    /\ UNCHANGED <<store, next_uuid, last_load, overwritten, appended, stream, call>>

\* catalog.update_table(identifier, metadata_file_location,
\* previous_metadata_file_location).await?; *table = new_table
commit_update_table(h) ==
    /\ txn[h].pc = "metastore_put"
    /\ LET r == update_table(catalog, store, metastore_path(txn[h].uuid),
                             table[h].metadata_location)
       IN /\ catalog' = r.catalog
          /\ IF r.ok
             THEN /\ table' = [table EXCEPT ![h] = r.table]
                  /\ txn' = [txn EXCEPT ![h].pc = "idle", ![h].result = "Ok"]
             ELSE /\ txn' = [txn EXCEPT ![h].pc = "idle", ![h].result = "Conflict"]
                  /\ UNCHANGED table
    /\ UNCHANGED <<store, next_uuid, last_load, overwritten, appended, stream, call>>

\* Transaction::commit, last arm: Err("Table can't be both a filesystem and a
\* metastore table.")
commit_error(h) ==
    /\ txn[h].pc = "open"
    /\ commit_arm(fold_operations(table[h], txn[h].operations)) = "error"
    /\ table' = [table EXCEPT ![h] = fold_operations(table[h], txn[h].operations)]
    /\ txn' = [txn EXCEPT ![h].pc = "idle", ![h].result = "BackingErr"]
    /\ UNCHANGED <<store, next_uuid, last_load, overwritten, appended, stream, catalog, call>>

\* A caller opens the table anew with load_file_system_table and, when the
\* load succeeds, uses the loaded Table as its handle h from then on.
open_table(h) ==
    /\ txn[h].pc = "idle"
    /\ LET r == load_file_system_table(store)
           during == \E g \in Handles : txn[g].pc \in {"put", "copied", "deleted"}
       IN IF r.ok
          THEN /\ table' = [table EXCEPT ![h] = r.table]
               /\ txn' = [txn EXCEPT ![h] = NoTxn]
               /\ last_load' = [result |-> "Ok", during |-> during]
          ELSE /\ last_load' = [result |-> "Err", during |-> during]
               /\ UNCHANGED <<table, txn>>
    /\ UNCHANGED <<store, next_uuid, overwritten, appended, stream, catalog, call>>

Next ==
    \E h \in Handles :
        \/ new_transaction(h)
        \/ \E paths \in PathChoices(h) : fast_append(h, paths)
        \/ abandon(h)
        \/ commit_put(h)
        \/ commit_copy(h)
        \/ commit_delete(h)
        \/ commit_reload(h)
        \/ open_table(h)

Spec == Init /\ [][Next]_vars

\* The commits of the handles with the failures of the object store.
NextCommit ==
    \E h \in Handles :
        \/ new_transaction(h)
        \/ commit_put(h)
        \/ commit_put_err(h)
        \/ commit_copy(h)
        \/ commit_delete(h)
        \/ commit_delete_err(h)
        \/ commit_reload(h)
        \/ open_table(h)

SpecCommit == Init /\ [][NextCommit]_vars

\* One handle with each combination of the three backings, its metadata
\* file at the location the catalog records when it has a catalog.
Backings == [catalog : BOOLEAN, identifier : BOOLEAN, object_store : BOOLEAN]

table_with(backing) ==
    [new_filesystem_table EXCEPT
        !.backing = backing,
        !.metadata_location = IF backing.catalog /\ backing.identifier
                              THEN metastore_path(0) ELSE final_path(0)]

InitBacking ==
    /\ \E backing \in Backings :
           /\ table = [h \in Handles |-> table_with(backing)]
           /\ store = (table_with(backing).metadata_location
                          :> to_string(new_filesystem_table.metadata))
    /\ txn = [h \in Handles |-> NoTxn]
    /\ next_uuid = 0
    /\ last_load = [result |-> "none", during |-> FALSE]
    /\ overwritten = {}
    /\ appended = <<>>
    /\ stream = NoStream
    /\ catalog = [NoCatalog EXCEPT !.location = metastore_path(0)]
    /\ call = NoCall

NextBacking ==
    \E h \in Handles :
        \/ new_transaction(h)
        \/ abandon(h)
        \/ commit_put(h)
        \/ commit_copy(h)
        \/ commit_delete(h)
        \/ commit_reload(h)
        \/ commit_metastore_put(h)
        \/ commit_update_table(h)
        \/ commit_error(h)

SpecBacking == InitBacking /\ [][NextBacking]_vars

\* Two handles of one metastore table, loaded from the location the catalog
\* records.
InitMetastore ==
    /\ table = [h \in Handles |-> table_with(Metastore)]
    /\ store = (metastore_path(0) :> to_string(new_filesystem_table.metadata))
    /\ txn = [h \in Handles |-> NoTxn]
    /\ next_uuid = 0
    /\ last_load = [result |-> "none", during |-> FALSE]
    /\ overwritten = {}
    /\ appended = <<>>
    /\ stream = NoStream
    /\ catalog = [NoCatalog EXCEPT !.location = metastore_path(0)]
    /\ call = NoCall

NextMetastore ==
    \E h \in Handles :
        \/ new_transaction(h)
        \/ abandon(h)
        \/ commit_metastore_put(h)
        \/ commit_metastore_put_err(h)
        \/ commit_update_table(h)

SpecMetastore == InitMetastore /\ [][NextMetastore]_vars

\* One writer that queues metadata operations as well as appends.
NextOps ==
    \/ new_transaction("A")
    \/ \E schema \in Schemas : update_schema("A", schema)
    \/ \E spec_id \in SpecIds : update_spec("A", spec_id)
    \/ \E paths \in PathChoices("A") : fast_append("A", paths)
    \/ abandon("A")
    \/ commit_put("A")
    \/ commit_copy("A")
    \/ commit_delete("A")
    \/ commit_reload("A")
    \/ open_table("A")

SpecOps == Init /\ [][NextOps]_vars

\* One writer whose transactions make new snapshots.
NextSnapshots ==
    \/ new_transaction("A")
    \/ \E snapshot_id \in 1..MaxSnapshotId : table_new_snapshot("A", snapshot_id)
    \/ abandon("A")
    \/ commit_put("A")
    \/ commit_copy("A")
    \/ commit_delete("A")
    \/ commit_reload("A")
    \/ open_table("A")

SpecSnapshots == Init /\ [][NextSnapshots]_vars

----------------------------------------------------------------------------
\* The file stream.

\* filter_manifest with its test the other way round.
filter_manifest_inverted(manifest, predicate) ==
    IF predicate THEN <<>> ELSE <<manifest>>

filter_manifest(manifest, predicate) ==
    IF predicate THEN <<manifest>> ELSE <<>>

\* manifests.iter().zip(predicate).filter_map(filter_manifest): the zip ends
\* with the shorter of the two.
RECURSIVE zip_filter_map(_, _)
zip_filter_map(manifests, predicate) ==
    IF manifests = <<>> \/ predicate = <<>> THEN <<>>
    ELSE filter_manifest(Head(manifests), Head(predicate))
         \o zip_filter_map(Tail(manifests), Tail(predicate))

\* repeat(true), as far as the zip reads it
repeat_true(manifests) == [i \in 1..Len(manifests) |-> TRUE]

\* Table::files(filter)
files(t, filter) ==
    [open |-> TRUE,
     manifest_list_iter |->
         IF filter.some THEN zip_filter_map(t.manifests, filter.predicate)
         ELSE zip_filter_map(t.manifests, repeat_true(t.manifests)),
     manifest_iter |-> [some |-> FALSE, rest |-> <<>>],
     yielded |-> <<>>, ended |-> FALSE, late |-> <<>>, filter |-> filter]

\* DataFileStream::poll_next.  ready says whether the read of the manifest
\* completes within this poll; it is read only when a manifest is fetched.
\* The future of the read is a temporary of this call: when it returns
\* Pending it is dropped, and manifest_list_iter has moved on already.
poll_next(s, st, ready) ==
    IF s.manifest_iter.some /\ s.manifest_iter.rest # <<>>
    THEN [stream |-> [s EXCEPT !.manifest_iter.rest = Tail(@)],
          poll |-> "Ready", item |-> <<Head(s.manifest_iter.rest)>>]
    ELSE IF s.manifest_list_iter = <<>>
    THEN [stream |-> s, poll |-> "Ready", item |-> <<>>]
    ELSE LET file == Head(s.manifest_list_iter)
             s1 == [s EXCEPT !.manifest_list_iter = Tail(@)]
         IN IF ~ready
            THEN [stream |-> s1, poll |-> "Pending", item |-> <<>>]
            ELSE IF file.manifest_path \notin DOMAIN st
            THEN [stream |-> s1, poll |-> "Ready", item |-> <<[error |-> TRUE]>>]
            ELSE LET entries == st[file.manifest_path] IN
                 [stream |-> [s1 EXCEPT !.manifest_iter =
                                  [some |-> TRUE,
                                   rest |-> IF entries = <<>> THEN <<>>
                                            ELSE Tail(entries)]],
                  poll |-> "Ready",
                  item |-> IF entries = <<>> THEN <<>> ELSE <<Head(entries)>>]

\* What a consumer does with one poll: StreamExt::next() hands Some(item) to
\* the caller, takes Ready(None) as the end of the stream, and on Pending
\* waits to be polled again.
consume(s, st, ready) ==
    LET r == poll_next(s, st, ready) IN
    IF r.poll = "Pending" THEN r.stream
    ELSE IF r.item = <<>> THEN [r.stream EXCEPT !.ended = TRUE]
    ELSE [r.stream EXCEPT !.yielded = @ \o r.item]

\* The whole stream when every read completes at its first poll, as with the
\* in-memory object store.
RECURSIVE collect(_, _)
collect(s, st) ==
    IF s.ended THEN s.yielded ELSE collect(consume(s, st, TRUE), st)

\* files(filter) is called on handle A.
files_call(filter) ==
    /\ ~stream.open
    /\ stream' = files(table["A"], filter)
    /\ UNCHANGED <<store, table, txn, next_uuid, last_load, overwritten, appended, catalog, call>>

\* The consumer polls the stream once more.
poll(ready) ==
    /\ stream.open
    /\ ~stream.ended
    /\ stream' = consume(stream, store, ready)
    /\ UNCHANGED <<store, table, txn, next_uuid, last_load, overwritten, appended, catalog, call>>

\* The stream is polled after it returned None: what it then yields is kept
\* apart.
poll_after_end(ready) ==
    /\ stream.open
    /\ stream.ended
    /\ LET r == poll_next(stream, store, ready) IN
       stream' = IF r.poll = "Ready" /\ r.item # <<>>
                 THEN [r.stream EXCEPT !.late = @ \o r.item]
                 ELSE r.stream
    /\ UNCHANGED <<store, table, txn, next_uuid, last_load, overwritten, appended, catalog, call>>

\* A table with one snapshot whose manifest list names k manifests, manifest
\* i holding counts[i] entries.
entries_of(i, n) ==
    [j \in 1..n |-> [status |-> "Added", file_path |-> [manifest |-> i, entry |-> j]]]

table_objects(k, counts) ==
    [p \in {final_path(0), snap_path(1)} \cup {manifest_path(i) : i \in 1..k} |->
        IF p = final_path(0)
        THEN to_string([new_filesystem_table.metadata EXCEPT
                            !.current_snapshot_id = <<1>>,
                            !.snapshots = <<[snapshot_id |-> 1,
                                             parent_snapshot_id |-> <<>>,
                                             sequence_number |-> 0,
                                             manifest_list |-> snap_path(1)]>>])
        ELSE IF p = snap_path(1)
        THEN [i \in 1..k |-> [manifest_path |-> manifest_path(i)]]
        ELSE entries_of(p.id, counts[p.id])]

InitFiles ==
    /\ \E k \in 0..MaxManifests : \E counts \in [1..k -> 0..MaxEntries] :
           store = table_objects(k, counts)
    /\ table = [h \in Handles |-> load_file_system_table(store).table]
    /\ txn = [h \in Handles |-> NoTxn]
    /\ next_uuid = 0
    /\ last_load = [result |-> "none", during |-> FALSE]
    /\ overwritten = {}
    /\ appended = <<>>
    /\ stream = NoStream
    /\ catalog = NoCatalog
    /\ call = NoCall

\* The masks the claims are about have one entry per manifest.
Filters ==
    {[some |-> FALSE]} \cup
    {[some |-> TRUE, predicate |-> m] : m \in [1..Len(table["A"].manifests) -> BOOLEAN]}

NextFiles ==
    \/ \E filter \in Filters : files_call(filter)
    \/ \E ready \in BOOLEAN : poll(ready)

SpecFiles == InitFiles /\ [][NextFiles]_vars

\* The stream with a consumer that goes on polling after None.
NextPolls ==
    \/ \E filter \in Filters : files_call(filter)
    \/ \E ready \in BOOLEAN : poll(ready)
    \/ \E ready \in BOOLEAN : poll_after_end(ready)

SpecPolls == InitFiles /\ [][NextPolls]_vars

\* The same tables before any handle has loaded them, with the manifest list
\* of the current snapshot readable or not: the get of the object fails when
\* the object is not there.
InitLoad ==
    /\ \E k \in 0..MaxManifests : \E counts \in [1..k -> 0..MaxEntries] :
       \E readable \in BOOLEAN :
           store = IF readable THEN table_objects(k, counts)
                   ELSE delete(table_objects(k, counts), snap_path(1))
    /\ table = [h \in Handles |-> new_filesystem_table]
    /\ txn = [h \in Handles |-> NoTxn]
    /\ next_uuid = 0
    /\ last_load = [result |-> "none", during |-> FALSE]
    /\ overwritten = {}
    /\ appended = <<>>
    /\ stream = NoStream
    /\ catalog = NoCatalog
    /\ call = NoCall

NextLoad ==
    \/ \E h \in Handles : open_table(h)
    \/ NextFiles

SpecLoad == InitLoad /\ [][NextLoad]_vars

----------------------------------------------------------------------------
\* Table metadata and its JSON documents (src/model/metadata.rs).
\*
\* An Option is a sequence of at most one element: <<>> is None (in a
\* document: the key is absent or null), <<v>> is Some(v).  The keys every
\* document of the model carries and both versions require (location,
\* last-updated-ms, last-column-id, default-sort-order-id) are left out.

Opt(S) == {<<>>} \cup {<<x>> : x \in S}

unwrap_or(o, default) == IF o = <<>> THEN default ELSE o[1]

\* A uuid string of a document, one that is not a uuid, and the value the
\* n-th call of Uuid::new_v4 returns.
doc_uuid == [kind |-> "doc", id |-> 0]
bad_uuid == [kind |-> "xxxx", id |-> 0]
new_v4(n) == [kind |-> "v4", id |-> n]

parse_uuid_ok(u) == u.kind # "xxxx"

\* The documents read.  A schema is told by its schema-id, a partition
\* field by its field-id, a partition spec by its spec-id and fields.
SchemaDocs == {[schema_id |-> i] : i \in Opt({1})}
FieldLists == {<<>>, <<[field_id |-> 1000], [field_id |-> 1001]>>}
SpecLists == {<<[spec_id |-> 0, fields |-> <<[field_id |-> 1000]>>]>>}

Docs ==
    [format_version : Opt({"1", "2", "3"}),
     table_uuid : Opt({doc_uuid, bad_uuid}),
     last_sequence_number : Opt({1}),
     schema : Opt(SchemaDocs),
     schemas : Opt({<<[schema_id |-> <<1>>]>>}),
     current_schema_id : Opt({0, 1}),
     partition_spec : Opt(FieldLists),
     partition_specs : Opt(SpecLists),
     default_spec_id : Opt({0, 1}),
     last_partition_id : Opt({1001}),
     sort_orders : Opt({<<>>}),
     refs : Opt({"main"})]

\* #[derive(Deserialize)] of SchemaV2: schema-id is required.
schema_v2_ok(d) == d.schema_id # <<>>

\* #[derive(Deserialize)] of MetadataV2: every field that is not an Option
\* is required; the "format-version" tag of the struct is written by
\* Serialize and not read by Deserialize, and keys that are no field of the
\* struct are skipped.
deserialize_v2(doc) ==
    IF /\ doc.table_uuid # <<>> /\ parse_uuid_ok(doc.table_uuid[1])
       /\ doc.last_sequence_number # <<>>
       /\ doc.schemas # <<>>
       /\ \A i \in 1..Len(doc.schemas[1]) : schema_v2_ok(doc.schemas[1][i])
       /\ doc.current_schema_id # <<>>
       /\ doc.partition_specs # <<>>
       /\ doc.default_spec_id # <<>>
       /\ doc.last_partition_id # <<>>
       /\ doc.sort_orders # <<>>
    THEN <<[table_uuid |-> doc.table_uuid[1],
            last_sequence_number |-> doc.last_sequence_number[1],
            schemas |-> [i \in 1..Len(doc.schemas[1]) |->
                            [schema_id |-> doc.schemas[1][i].schema_id[1]]],
            current_schema_id |-> doc.current_schema_id[1],
            partition_specs |-> doc.partition_specs[1],
            default_spec_id |-> doc.default_spec_id[1],
            last_partition_id |-> doc.last_partition_id[1],
            sort_orders |-> doc.sort_orders[1],
            refs |-> doc.refs]>>
    ELSE <<>>

\* #[derive(Deserialize)] of MetadataV1: schema, partition-spec and
\* sort-orders are required, a table-uuid that is there must parse.
deserialize_v1(doc) ==
    IF /\ doc.table_uuid # <<>> => parse_uuid_ok(doc.table_uuid[1])
       /\ doc.schema # <<>>
       /\ doc.partition_spec # <<>>
       /\ doc.sort_orders # <<>>
    THEN <<[table_uuid |-> doc.table_uuid,
            schema |-> doc.schema[1],
            schemas |-> doc.schemas,
            current_schema_id |-> doc.current_schema_id,
            partition_spec |-> doc.partition_spec[1],
            partition_specs |-> doc.partition_specs,
            default_spec_id |-> doc.default_spec_id,
            last_partition_id |-> doc.last_partition_id,
            sort_orders |-> doc.sort_orders[1]]>>
    ELSE <<>>

\* .iter().map(|field| field.field_id).fold(0, |max, x| cmp::max(max, x))
RECURSIVE fold_max(_, _)
fold_max(max, fields) ==
    IF fields = <<>> THEN max
    ELSE fold_max(IF Head(fields).field_id > max THEN Head(fields).field_id ELSE max,
                  Tail(fields))

\* From<SchemaV1> for SchemaV2
schema_from_v1(v1) == [schema_id |-> unwrap_or(v1.schema_id, 0)]

\* From<MetadataV1> for MetadataV2.  uuid is the value of Uuid::new_v4():
\* the argument of unwrap_or is evaluated whether it is used or not.
from_v1(v1, uuid) ==
    LET last_partition_id == unwrap_or(v1.last_partition_id,
                                       fold_max(0, v1.partition_spec))
        current_schema_id == unwrap_or(v1.current_schema_id,
                                       unwrap_or(v1.schema.schema_id, 0))
        default_spec_id == unwrap_or(v1.default_spec_id, 0)
        schemas == unwrap_or(v1.schemas, <<v1.schema>>)
    IN [table_uuid |-> unwrap_or(v1.table_uuid, uuid),
        last_sequence_number |-> 0,
        schemas |-> [i \in 1..Len(schemas) |-> schema_from_v1(schemas[i])],
        current_schema_id |-> current_schema_id,
        partition_specs |-> unwrap_or(v1.partition_specs,
                                      <<[spec_id |-> 0, fields |-> v1.partition_spec]>>),
        default_spec_id |-> default_spec_id,
        last_partition_id |-> last_partition_id,
        sort_orders |-> v1.sort_orders,
        refs |-> <<>>]

\* Deserialize for Metadata: the untagged TableMetadataVersion takes the
\* first variant that deserializes, V2 before V1, and a V1 value is
\* converted.  <<>> is the error "data did not match any variant".
deserialize(doc, uuid) ==
    IF deserialize_v2(doc) # <<>> THEN deserialize_v2(doc)
    ELSE IF deserialize_v1(doc) # <<>> THEN <<from_v1(deserialize_v1(doc)[1], uuid)>>
    ELSE <<>>

\* The variant the document was deserialized as.
variant(doc) ==
    IF deserialize_v2(doc) # <<>> THEN "V2"
    ELSE IF deserialize_v1(doc) # <<>> THEN "V1"
    ELSE "none"

\* A serialization that leaves last-sequence-number out.
serialize_without_sequence_number(m) ==
    [format_version |-> <<"MetadataV2">>,
     table_uuid |-> <<m.table_uuid>>,
     last_sequence_number |-> <<>>,
     schema |-> <<>>,
     schemas |-> <<[i \in 1..Len(m.schemas) |->
                       [schema_id |-> <<m.schemas[i].schema_id>>]]>>,
     current_schema_id |-> <<m.current_schema_id>>,
     partition_spec |-> <<>>,
     partition_specs |-> <<m.partition_specs>>,
     default_spec_id |-> <<m.default_spec_id>>,
     last_partition_id |-> <<m.last_partition_id>>,
     sort_orders |-> <<m.sort_orders>>,
     refs |-> m.refs]

\* Serialize for Metadata: #[derive(Serialize)] of MetadataV2 writes the name
\* of the struct under the tag "format-version", then every field, None as
\* null.
serialize(m) ==
    [format_version |-> <<"MetadataV2">>,
     table_uuid |-> <<m.table_uuid>>,
     last_sequence_number |-> <<m.last_sequence_number>>,
     schema |-> <<>>,
     schemas |-> <<[i \in 1..Len(m.schemas) |->
                       [schema_id |-> <<m.schemas[i].schema_id>>]]>>,
     current_schema_id |-> <<m.current_schema_id>>,
     partition_spec |-> <<>>,
     partition_specs |-> <<m.partition_specs>>,
     default_spec_id |-> <<m.default_spec_id>>,
     last_partition_id |-> <<m.last_partition_id>>,
     sort_orders |-> <<m.sort_orders>>,
     refs |-> m.refs]

\* MetadataV2::current_schema and default_spec: the first entry with the id,
\* <<>> where the unwrap panics.
current_schema(m) ==
    SelectSeq(m.schemas, LAMBDA schema : schema.schema_id = m.current_schema_id)

default_spec(m) ==
    SelectSeq(m.partition_specs, LAMBDA spec : spec.spec_id = m.default_spec_id)

\* A caller deserializes the chosen document.
from_json ==
    /\ call.fn = "input"
    /\ next_uuid < MaxUuid
    /\ next_uuid' = next_uuid + 1
    /\ call' = [fn |-> "from_json", doc |-> call.doc,
                result |-> deserialize(call.doc, new_v4(next_uuid + 1))]
    /\ UNCHANGED <<store, table, txn, last_load, overwritten, appended, stream, catalog>>

\* The caller deserializes the same document once more.
from_json_again ==
    /\ call.fn = "from_json"
    /\ next_uuid < MaxUuid
    /\ next_uuid' = next_uuid + 1
    /\ call' = [fn |-> "from_json_again", doc |-> call.doc, result |-> call.result,
                again |-> deserialize(call.doc, new_v4(next_uuid + 1))]
    /\ UNCHANGED <<store, table, txn, last_load, overwritten, appended, stream, catalog>>

\* The caller serializes the Metadata it got and deserializes the string.
round_trip ==
    /\ call.fn = "from_json"
    /\ call.result # <<>>
    /\ next_uuid < MaxUuid
    /\ next_uuid' = next_uuid + 1
    /\ call' = [fn |-> "round_trip", doc |-> call.doc, result |-> call.result,
                again |-> deserialize(serialize(call.result[1]), new_v4(next_uuid + 1))]
    /\ UNCHANGED <<store, table, txn, last_load, overwritten, appended, stream, catalog>>

InitMetadata ==
    /\ store = (final_path(0) :> to_string(new_filesystem_table.metadata))
    /\ table = [h \in Handles |-> new_filesystem_table]
    /\ txn = [h \in Handles |-> NoTxn]
    /\ next_uuid = 0
    /\ last_load = [result |-> "none", during |-> FALSE]
    /\ overwritten = {}
    /\ appended = <<>>
    /\ stream = NoStream
    /\ catalog = NoCatalog
    /\ \E doc \in Docs : call = [fn |-> "input", doc |-> doc]

NextMetadata ==
    \/ from_json
    \/ from_json_again
    \/ round_trip

SpecMetadata == InitMetadata /\ [][NextMetadata]_vars

\* TableBuilder (src/table/table_builder.rs).

\* The schemas and partition specs a caller gives to the builder.
BuilderSchemas == {[schema_id |-> i] : i \in {0, 1, 2}}
BuilderSpecs == {[spec_id |-> i, fields |-> <<>>] : i \in {0, 1, 2}}

\* The metadata of TableBuilder::new(identifier, location, schema, catalog)
builder_new(schema, uuid) ==
    [table_uuid |-> uuid,
     last_sequence_number |-> 0,
     schemas |-> <<schema>>,
     current_schema_id |-> 1,
     partition_specs |-> <<[spec_id |-> 1, fields |-> <<[field_id |-> 1]>>]>>,
     default_spec_id |-> 1,
     last_partition_id |-> 1,
     sort_orders |-> <<[order_id |-> 1]>>,
     refs |-> <<>>]

table_builder_new(schema) ==
    /\ call.fn = "none"
    /\ next_uuid < MaxUuid
    /\ next_uuid' = next_uuid + 1
    /\ call' = [fn |-> "TableBuilder",
                metadata |-> builder_new(schema, new_v4(next_uuid + 1))]
    /\ UNCHANGED <<store, table, txn, last_load, overwritten, appended, stream, catalog>>

\* TableBuilder::with_partition_spec(partition_spec)
with_partition_spec(partition_spec) ==
    /\ call.fn = "TableBuilder"
    /\ Len(call.metadata.partition_specs) <= MaxSpecs
    /\ call' = [call EXCEPT !.metadata.partition_specs = Append(@, partition_spec)]
    /\ UNCHANGED <<store, table, txn, next_uuid, last_load, overwritten, appended,
                   stream, catalog>>

NextBuilder ==
    \/ \E schema \in BuilderSchemas : table_builder_new(schema)
    \/ \E partition_spec \in BuilderSpecs : with_partition_spec(partition_spec)

SpecBuilder == Init /\ [][NextBuilder]_vars

\* TableIdentifier and Namespace (src/catalog/table_identifier.rs,
\* src/catalog/namespace.rs).  A string is the sequence of its characters;
\* a result is <<value>> for Ok(value) and <<>> for Err.

SEPARATOR == "."

Chars == {"a", "b", SEPARATOR}

RECURSIVE StringsOf(_)
StringsOf(n) ==
    IF n = 0 THEN {<<>>}
    ELSE StringsOf(n - 1) \cup {Append(str, c) : str \in StringsOf(n - 1), c \in Chars}

\* identifier.split(SEPARATOR).collect(): one segment more than there are
\* separators, the segments before, between and after them.
RECURSIVE split(_)
split(identifier) ==
    IF identifier = <<>> THEN << <<>> >>
    ELSE LET rest == split(Tail(identifier)) IN
         IF Head(identifier) = SEPARATOR THEN << <<>> >> \o rest
         ELSE << <<Head(identifier)>> \o Head(rest) >> \o Tail(rest)

\* Namespace::try_new(levels)
namespace_try_new(levels) ==
    IF \E i \in 1..Len(levels) : levels[i] = <<>> THEN <<>>
    ELSE <<levels>>

\* TableIdentifier::try_new without the test of the last name.
try_new_unchecked_name(names) ==
    IF names = <<>> THEN <<>>
    ELSE LET namespace == namespace_try_new(SubSeq(names, 1, Len(names) - 1)) IN
         IF namespace = <<>> THEN <<>>
         ELSE <<[namespace |-> namespace[1], name |-> names[Len(names)]]>>

\* TableIdentifier::try_new(names)
try_new(names) ==
    IF names = <<>> THEN <<>>
    ELSE IF names[Len(names)] = <<>> THEN <<>>
    ELSE LET namespace == namespace_try_new(SubSeq(names, 1, Len(names) - 1)) IN
         IF namespace = <<>> THEN <<>>
         ELSE <<[namespace |-> namespace[1], name |-> names[Len(names)]]>>

\* TableIdentifier::parse(identifier)
parse(identifier) == try_new(split(identifier))

parse_call(identifier) ==
    /\ call.fn = "none"
    /\ call' = [fn |-> "parse", identifier |-> identifier, names |-> <<>>,
                result |-> parse(identifier)]
    /\ UNCHANGED <<store, table, txn, next_uuid, last_load, overwritten, appended,
                   stream, catalog>>

\* TableIdentifier::try_new on a sequence of names a caller has put together.
try_new_call(names) ==
    /\ call.fn = "none"
    /\ call' = [fn |-> "try_new", identifier |-> <<>>, names |-> names,
                result |-> try_new(names)]
    /\ UNCHANGED <<store, table, txn, next_uuid, last_load, overwritten, appended,
                   stream, catalog>>

NameLists ==
    {<<>>} \cup {<<x>> : x \in StringsOf(1)}
           \cup {<<x, y>> : x \in StringsOf(1), y \in StringsOf(1)}

NextIdentifier ==
    \/ \E identifier \in StringsOf(MaxLen) : parse_call(identifier)
    \/ \E names \in NameLists : try_new_call(names)

SpecIdentifier == Init /\ [][NextIdentifier]_vars

\* Decimal (src/model/decimal.rs).  Decimal::new reads of its value only
\* value.bits(), the number of bits of the magnitude, so a value is given
\* by that number.

MaxBits == 137
MaxPrecision == 39

\* The scales given with a precision: none, the largest allowed and the
\* first beyond it.
Scales(precision) == {0, precision, precision + 1}

\* Decimal numerals, lowest digit first, for the powers of two that do not
\* fit a machine integer of the model checker.
\* Twice a numeral: a digit of 5 or more carries 1 into the next place.
double(digits) ==
    LET n == Len(digits)
        carry(i) == IF i > 1 /\ digits[i - 1] >= 5 THEN 1 ELSE 0
    IN  [i \in 1..(IF digits[n] >= 5 THEN n + 1 ELSE n) |->
            ((IF i <= n THEN 2 * digits[i] ELSE 0) + carry(i)) % 10] \o <<>>

\* The numerals of 2^7, 2^15, .. 2^(8 len - 1): each is 2^8 times the one
\* before.
RECURSIVE powers(_)
powers(len) ==
    IF len = 1 THEN << <<8, 2, 1>> >>
    ELSE LET lower == powers(len - 1) IN
         Append(lower,
                double(double(double(double(
                double(double(double(double(lower[len - 1])))))))))

\* 2^(8 len - 1) for every byte count the model takes.
powers_of_two == powers((MaxBits + 7) \div 8 + 1)

\* 2.0_f64.powi(n), for the exponents n = 8 len - 1 that the code takes.
powi(n) == powers_of_two[(n + 1) \div 8]

\* (2.0_f64.powi(8 * len - 1) - 1.0).log10().floor() as usize: one less
\* than the number of digits of 2^(8 len - 1) - 1.  For len = 0 the
\* logarithm is taken of -0.5 and is NaN, which the cast turns into 0.  The
\* rounding of f64 does not move the floor: no power of two above 1 is a
\* power of ten.
max_prec_for_len(len) ==
    IF len = 0 THEN 0
    ELSE Len([powi(8 * len - 1) EXCEPT ![1] = @ - 1]) - 1

\* max_prec_for_len(len) at place len + 1, for every byte count a value of
\* the model has.
max_prec == [len \in 1..((MaxBits + 7) \div 8 + 1) |-> max_prec_for_len(len - 1)] \o <<>>

\* Decimal::new without the test of the precision against 38.
decimal_new_unbounded(bits, precision, scale) ==
    IF scale > precision THEN <<>>
    ELSE LET bytes == (bits + 7) \div 8 IN
         IF ~(max_prec[bytes + 1] >= precision) THEN <<>>
         ELSE <<[bits |-> bits, precision |-> precision, scale |-> scale]>>

\* Decimal::new(value, precision, scale); bytes is
\* f64::ceil(value.bits() as f64 / 8_f64).
decimal_new(bits, precision, scale) ==
    IF ~(precision <= 38) THEN <<>>
    ELSE IF ~(scale <= precision) THEN <<>>
    ELSE LET bytes == (bits + 7) \div 8 IN
         IF ~(max_prec[bytes + 1] >= precision) THEN <<>>
         ELSE <<[bits |-> bits, precision |-> precision, scale |-> scale]>>

\* A call of Decimal::new with a value, a precision and a scale.
decimal_new_call ==
    /\ call.fn = "none"
    /\ \E bits \in 0..MaxBits, precision \in 0..MaxPrecision :
           \E scale \in Scales(precision) :
               call' = [fn |-> "Decimal::new", bits |-> bits, precision |-> precision,
                        scale |-> scale, result |-> decimal_new(bits, precision, scale)]
    /\ UNCHANGED <<store, table, txn, next_uuid, last_load, overwritten, appended,
                   stream, catalog>>

NextDecimal == decimal_new_call

SpecDecimal == Init /\ [][NextDecimal]_vars

\* ManifestEntry and its Avro record (src/model/manifest.rs).  An Avro value
\* is [kind, v]; the fields of a record are pairs <<name, value>> in order.
\* Of DataFile the path, the partition and the record count are kept: the
\* other fields take the same derived conversions.

MaxLong == 1

PartitionNames == {"date", "partition_spec_name", "partition", "data_file"}

Statuses == {0, 1, 2}

ManifestEntries ==
    [status : Statuses,
     snapshot_id : Opt(0..MaxLong),
     sequence_number : Opt(0..MaxLong),
     data_file : [file_path : {"/"},
                  partition : [partition_spec_name : Opt(0..MaxLong)],
                  record_count : {4}]]

ValueNull == [kind |-> "Null", v |-> <<>>]
ValueInt(n) == [kind |-> "Int", v |-> n]
ValueLong(n) == [kind |-> "Long", v |-> n]
ValueString(s) == [kind |-> "String", v |-> s]
ValueUnion(value) == [kind |-> "Union", v |-> value]
ValueRecord(fields) == [kind |-> "Record", v |-> fields]

\* apache_avro::to_value of an Option<i64>
option_to_value(option) ==
    IF option = <<>> THEN ValueUnion(ValueNull) ELSE ValueUnion(ValueLong(option[1]))

\* apache_avro::to_value(self) by the derived Serialize of ManifestEntry,
\* DataFile and PartitionStruct
to_value(entry) ==
    ValueRecord(<< <<"status", ValueInt(entry.status)>>,
              <<"snapshot_id", option_to_value(entry.snapshot_id)>>,
              <<"sequence_number", option_to_value(entry.sequence_number)>>,
              <<"data_file",
                ValueRecord(<< <<"file_path", ValueString(entry.data_file.file_path)>>,
                          <<"partition",
                            ValueRecord(<< <<"partition_spec_name",
                                        option_to_value(
                                            entry.data_file.partition.partition_spec_name)>> >>)>>,
                          <<"record_count", ValueLong(entry.data_file.record_count)>> >>)>> >>)

\* iter_mut().filter(|x| x.0 == name).for_each(..) on the fields of a record
\* whose chosen values are records: each is replaced by what f makes of its
\* fields.
for_each_record(fields, name, f(_)) ==
    [i \in 1..Len(fields) |->
        IF fields[i][1] = name /\ fields[i][2].kind = "Record"
        THEN <<fields[i][1], ValueRecord(f(fields[i][2].v))>>
        ELSE fields[i]]

\* .filter(|z| z.0 == "partition_spec_name").for_each(|(name, _)| *name = ..)
rename_canonical(my_record, partition_spec_name) ==
    [i \in 1..Len(my_record) |->
        IF my_record[i][1] = "partition_spec_name"
        THEN <<partition_spec_name, my_record[i][2]>>
        ELSE my_record[i]]

\* if my_record.len() == 1 { *name = "partition_spec_name" }
rename_single(my_record) ==
    IF Len(my_record) = 1
    THEN << <<"partition_spec_name", my_record[1][2]>> >>
    ELSE my_record

\* ManifestEntry::schema(PartitionStruct::write_schema(partition_spec_name)):
\* the names of the fields of the three records.
schema(partition_spec_name) ==
    [manifest_entry |-> <<"status", "snapshot_id", "sequence_number", "data_file">>,
     r2 |-> <<"file_path", "partition", "record_count">>,
     r102 |-> <<partition_spec_name>>]

has_field(fields, name) == \E i \in 1..Len(fields) : fields[i][1] = name

get_field(fields, name) == fields[CHOOSE i \in 1..Len(fields) : fields[i][1] = name][2]

\* Record::new(schema) and record.put(&key, value) for the fields of the
\* renamed value: the fields of the schema, each with the value put under
\* its name, ValueNull where none was put.
put_all(names, fields) ==
    [i \in 1..Len(names) |->
        <<names[i], IF has_field(fields, names[i]) THEN get_field(fields, names[i])
                    ELSE ValueNull>>]

\* ManifestEntry::into_record(self, schema, partition_spec_name)
into_record(entry, record_schema, partition_spec_name) ==
    LET value == to_value(entry)
        in_partition(my_record) == rename_canonical(my_record, partition_spec_name)
        in_data_file(my_data_file) == for_each_record(my_data_file, "partition", in_partition)
        my_manifest_entry == for_each_record(value.v, "data_file", in_data_file)
    IN  ValueRecord(put_all(record_schema.manifest_entry, my_manifest_entry))

names_of_fields(fields) == [i \in 1..Len(fields) |-> fields[i][1]]

values_of_fields(fields) == [i \in 1..Len(fields) |-> fields[i][2]]

\* Writer::append: the record is validated against the schema and written
\* as the values of its fields in order, without their names.  Err is <<>>.
append(record, record_schema) ==
    LET data_file == get_field(record.v, "data_file")
        partition == get_field(data_file.v, "partition")
    IN  IF /\ names_of_fields(record.v) = record_schema.manifest_entry
           /\ names_of_fields(data_file.v) = record_schema.r2
           /\ names_of_fields(partition.v) = record_schema.r102
        THEN <<[manifest_entry |-> values_of_fields(record.v),
                r2 |-> values_of_fields(data_file.v),
                r102 |-> values_of_fields(partition.v)]>>
        ELSE <<>>

with_names(names, values) == [i \in 1..Len(names) |-> <<names[i], values[i]>>]

\* Reader: the values read are given the names of the writer's schema.
read(datum, record_schema) ==
    LET partition == ValueRecord(with_names(record_schema.r102, datum.r102))
        data_file ==
            ValueRecord([i \in 1..Len(record_schema.r2) |->
                       <<record_schema.r2[i],
                         IF record_schema.r2[i] = "partition" THEN partition
                         ELSE datum.r2[i]>>])
    IN  ValueRecord([i \in 1..Len(record_schema.manifest_entry) |->
                   <<record_schema.manifest_entry[i],
                     IF record_schema.manifest_entry[i] = "data_file" THEN data_file
                     ELSE datum.manifest_entry[i]>>])

\* apache_avro::from_value of an Option<i64>; a field that is missing
\* gives None.
option_from_field(fields, name) ==
    IF ~has_field(fields, name) THEN <<>>
    ELSE IF get_field(fields, name).v.kind = "Null" THEN <<>>
    ELSE <<get_field(fields, name).v.v>>

\* apache_avro::from_value::<ManifestEntry>(&value)
from_value(value) ==
    LET data_file == get_field(value.v, "data_file").v
        partition == get_field(data_file, "partition").v
    IN  [status |-> get_field(value.v, "status").v,
         snapshot_id |-> option_from_field(value.v, "snapshot_id"),
         sequence_number |-> option_from_field(value.v, "sequence_number"),
         data_file |-> [file_path |-> get_field(data_file, "file_path").v,
                        partition |-> [partition_spec_name |->
                                           option_from_field(partition, "partition_spec_name")],
                        record_count |-> get_field(data_file, "record_count").v]]

\* TryFrom<Value> for ManifestEntry without the renaming of the partition
\* field.
try_from_unrenamed(value) ==
    IF value.kind = "Record" THEN <<from_value(value)>> ELSE <<>>

\* TryFrom<Value> for ManifestEntry
try_from(value) ==
    IF value.kind = "Record"
    THEN LET in_data_file(my_data_file) ==
                 for_each_record(my_data_file, "partition", rename_single)
         IN  <<from_value(ValueRecord(for_each_record(value.v, "data_file", in_data_file)))>>
    ELSE <<>>

\* An entry is made into a record under a partition field name, written,
\* read and made into an entry again.
write_and_read ==
    /\ call.fn = "none"
    /\ \E entry \in ManifestEntries, partition_spec_name \in PartitionNames :
           LET record_schema == schema(partition_spec_name)
               record == into_record(entry, record_schema, partition_spec_name)
               written == append(record, record_schema)
           IN  call' = [fn |-> "write_and_read", entry |-> entry,
                        partition_spec_name |-> partition_spec_name,
                        record |-> record,
                        written |-> written # <<>>,
                        result |-> IF written = <<>> THEN <<>>
                                   ELSE try_from(read(written[1], record_schema))]
    /\ UNCHANGED <<store, table, txn, next_uuid, last_load, overwritten, appended,
                   stream, catalog>>

NextManifestEntry == write_and_read

SpecManifestEntry == Init /\ [][NextManifestEntry]_vars

----------------------------------------------------------------------------
\* Operation::execute, NewFastAppend.

\* The arguments of fast_append.
PathLists == {<<"a">>, <<"a", "b">>}

\* added_snapshot_id: 39487483032 in the source.  The literal is beyond the
\* integers of the model checker and stands here by its last nine digits; it
\* is no snapshot id that new_snapshot draws in the model.
literal_added_snapshot_id == 487483032

\* The ManifestFile that execute appends to the manifest list: but for
\* manifest_path every field is a literal of the source.
manifest_file_of(manifest_location) ==
    [manifest_path |-> manifest_location,
     manifest_length |-> 1200,
     partition_spec_id |-> 0,
     sequence_number |-> <<566>>,
     min_sequence_number |-> <<0>>,
     added_snapshot_id |-> literal_added_snapshot_id,
     added_files_count |-> <<1>>,
     existing_files_count |-> <<2>>,
     deleted_files_count |-> <<0>>]

\* The body of execute for NewFastAppend(paths), run to completion: the
\* manifest is put at <list path minus .avro>-m0.avro, then the list of the
\* last snapshot is put, made of the list of the snapshot before it (read
\* only when there are at least two snapshots, an error when it is absent)
\* and the new ManifestFile.
execute(t, paths, s) ==
    LET table_metadata == t.metadata
        snapshots == table_metadata.snapshots
        last == snapshots[Len(snapshots)]
        manifest_list_location == last.manifest_list
        manifest_location == manifest_path(manifest_list_location.id)
        entries == [j \in 1..Len(paths) |->
                       [status |-> "Added",
                        snapshot_id |-> table_metadata.current_snapshot_id,
                        sequence_number |-> <<last.sequence_number>>,
                        file_path |-> paths[j]]]
        s1 == put(s, manifest_location, entries)
        old_manifest_location == snapshots[Len(snapshots) - 1].manifest_list
        manifest_file == manifest_file_of(manifest_location)
    IN  IF Len(snapshots) > 1 /\ old_manifest_location \notin DOMAIN s1
        THEN [ok |-> FALSE, store |-> s1]
        ELSE [ok |-> TRUE,
              store |-> put(s1, manifest_list_location,
                            (IF Len(snapshots) > 1 THEN s1[old_manifest_location] ELSE <<>>)
                            \o <<manifest_file>>)]

\* execute awaited on the table of the open transaction, after new_snapshot
\* has made the snapshot the files are appended to.
execute_call(h, paths) ==
    /\ txn[h].pc = "open"
    /\ table[h].metadata.snapshots # <<>>
    /\ LET r == execute(table[h], paths, store) IN
       /\ store' = r.store
       /\ call' = [fn |-> "execute", paths |-> paths, ok |-> r.ok,
                   metadata |-> table[h].metadata]
    /\ UNCHANGED <<table, txn, next_uuid, last_load, overwritten, appended, stream, catalog>>

\* table.new_snapshot() with an id no snapshot of the table has.  The uuid in
\* the path of a manifest list keeps the lists of two snapshots apart; the
\* paths of the model carry the snapshot id only, so the ids are distinct
\* where the lists are written.
table_new_snapshot_distinct(h, snapshot_id) ==
    /\ \A i \in DOMAIN table[h].metadata.snapshots :
           table[h].metadata.snapshots[i].snapshot_id # snapshot_id
    /\ table_new_snapshot(h, snapshot_id)

\* One writer whose transactions make a snapshot and append files to it.
NextExecute ==
    \/ new_transaction("A")
    \/ \E snapshot_id \in 1..MaxSnapshotId : table_new_snapshot_distinct("A", snapshot_id)
    \/ \E paths \in PathLists : execute_call("A", paths)
    \/ abandon("A")
    \/ commit_put("A")
    \/ commit_copy("A")
    \/ commit_delete("A")
    \/ commit_reload("A")

SpecExecute == Init /\ [][NextExecute]_vars

----------------------------------------------------------------------------
\* Properties.

\* The commit of handle h has ended, with this result.
Finished(h) == txn[h].pc = "idle" /\ txn[h].result \in {"Ok", "Conflict", "LoadErr"}

\* When its transaction started, handle h held exactly what it had loaded.
Fresh(h) ==
    txn[h].before.metadata.last_sequence_number = txn[h].before.metadata_location.id

InCommit(h) == txn[h].pc \in {"put", "copied", "deleted"}

\* What files(None) streams on handle h when every read completes at once.
files_none(h) == collect(files(table[h], [some |-> FALSE]), store)

file_paths(entries) == [i \in 1..Len(entries) |-> entries[i].file_path]

\* The entries fast_append(paths) is to add.
added(paths) == [i \in 1..Len(paths) |-> [status |-> "Added", file_path |-> paths[i]]]

\* C1: when two handles loaded from the same metadata location each start a
\* transaction and commit, then whatever the interleaving of their steps,
\* exactly one commit returns Ok and the other returns the conflict error.
C1_ExactlyOneOk ==
    \A g, h \in Handles :
        (/\ g # h
         /\ Finished(g) /\ Finished(h)
         /\ Fresh(g) /\ Fresh(h)
         /\ txn[g].before.metadata_location = txn[h].before.metadata_location)
        => \/ txn[g].result = "Ok" /\ txn[h].result = "Conflict"
           \/ txn[g].result = "Conflict" /\ txn[h].result = "Ok"

\* C2: a commit puts its metadata at the canonical path only if no other
\* commit has advanced the canonical version since the committing handle
\* loaded its metadata: at the copy, the version the handle loaded is the
\* latest canonical version.
C2_NoStaleCommit ==
    \A h \in Handles :
        (txn[h].pc \in {"copied", "deleted"} \/ txn[h].result \in {"Ok", "LoadErr"})
        => txn[h].loaded = txn[h].latest

\* C3: a created table is at v0.metadata.json, and a successful commit on a
\* handle at v<N>.metadata.json leaves the handle at v<N+1>.metadata.json.
C3_NextVersion ==
    \A h \in Handles :
        /\ txn[h].result = "none" /\ txn[h].pc = "idle" /\ last_load.result = "none"
           => table[h].metadata_location = final_path(0)
        /\ txn[h].result = "Ok"
           => table[h].metadata_location =
                  final_path(txn[h].before.metadata_location.id + 1)

\* C4: while a transaction is open or committing, and after it was abandoned
\* or its commit returned an error, the handle's metadata and
\* metadata_location are what they were before new_transaction.
C4_WorkingCopy ==
    \A h \in Handles :
        (txn[h].pc \in {"open", "put", "copied", "deleted"}
         \/ txn[h].result \in {"Abandoned", "Conflict", "LoadErr"})
        => table[h] = txn[h].before

\* C5: no commit writes to a path that holds an object, no object changes
\* its content, and only temporary objects are ever removed.
C5_Immutable ==
    /\ [](overwritten = {})
    /\ [][\A p \in DOMAIN store :
              /\ p \in DOMAIN store' => store'[p] = store[p]
              /\ p.kind # "uuid" => p \in DOMAIN store']_vars

\* A commit was refused at a canonical path that another commit had written.
C5_Witness ==
    \E h \in Handles :
        /\ txn[h].result = "Conflict"
        /\ final_path(txn[h].version) \in DOMAIN store
        /\ final_path(txn[h].version) # final_path(0)

\* C6: once a commit has ended in the conflict error and no commit is under
\* way, load_file_system_table succeeds and returns the latest canonical
\* metadata.
C6_LoadAfterConflict ==
    ((\E h \in Handles : txn[h].result = "Conflict")
     /\ \A g \in Handles : ~InCommit(g))
    => /\ load_file_system_table(store).ok
       /\ load_file_system_table(store).table.metadata_location =
              final_path(latest_version(store))

\* C7: a load_file_system_table made while another handle's commit is under
\* way succeeds.
C7_LoadDuringCommit ==
    last_load.during => last_load.result = "Ok"

\* C8: on a handle whose commit succeeded and that holds the latest version,
\* files(None) streams the paths of all committed fast_appends, oldest
\* commit first, each commit's paths in the order they were passed.
C8_AllAppendedInOrder ==
    \A h \in Handles :
        (txn[h].result = "Ok"
         /\ table[h].metadata_location = final_path(latest_version(store)))
        => file_paths(files_none(h)) = appended

\* C9: after fast_append(paths) and a successful commit, files() streams the
\* given paths, each with status Added, ahead of everything else.
C9_AppendedFirst ==
    \A h \in Handles :
        txn[h].result = "Ok"
        => LET paths == queued_paths(txn[h].operations)
               streamed == files_none(h)
           IN /\ Len(streamed) >= Len(paths)
              /\ SubSeq(streamed, 1, Len(paths)) = added(paths)

\* The entries of the manifests the filter retains, in manifest-list order.
RECURSIVE retained_entries(_, _, _)
retained_entries(manifests, predicate, st) ==
    IF manifests = <<>> THEN <<>>
    ELSE (IF Head(predicate) THEN st[Head(manifests).manifest_path] ELSE <<>>)
         \o retained_entries(Tail(manifests), Tail(predicate), st)

\* C10: the stream of files(Some(mask)), mask as long as the manifest list,
\* yields exactly the entries of the manifests whose mask entry is true, in
\* manifest-list order, and the stream of files(None) those of all manifests.
C10_MaskSelects ==
    stream.ended
    => stream.yielded =
           retained_entries(table["A"].manifests,
                            IF stream.filter.some THEN stream.filter.predicate
                            ELSE [i \in 1..Len(table["A"].manifests) |-> TRUE],
                            store)

\* The mask has exactly one true entry, one entry per manifest of handle A.
OneTrue(filter) ==
    /\ filter.some
    /\ Len(filter.predicate) = Len(table["A"].manifests)
    /\ Cardinality({i \in 1..Len(filter.predicate) : filter.predicate[i]}) = 1

true_position(filter) ==
    CHOOSE i \in 1..Len(filter.predicate) : filter.predicate[i]

\* The entries of the manifest at position i of handle A's manifest list.
entries_at(i) == store[table["A"].manifests[i].manifest_path]

negate(predicate) == [i \in 1..Len(predicate) |-> ~predicate[i]]

IsPrefix(a, b) == Len(a) <= Len(b) /\ SubSeq(b, 1, Len(a)) = a

RECURSIVE applied(_, _)
applied(m, operations) ==
    IF operations = <<>> THEN m
    ELSE LET op == Head(operations) IN
         applied(IF op.op = "UpdateSchema" THEN [m EXCEPT !.current_schema = op.schema]
                 ELSE IF op.op = "UpdateSpec" THEN [m EXCEPT !.default_spec_id = op.spec_id]
                 ELSE m,
                 Tail(operations))

\* C12: after a transaction with update_schema(schema) or update_spec(spec_id)
\* commits successfully, the handle's committed metadata has the schema and
\* the default spec id of the queued operations, applied in queue order.
C12_OperationsTakeEffect ==
    \A h \in Handles :
        txn[h].result = "Ok"
        => LET expected == applied(txn[h].before.metadata, txn[h].operations) IN
           /\ table[h].metadata.current_schema = expected.current_schema
           /\ table[h].metadata.default_spec_id = expected.default_spec_id

\* C13: a handle whose metadata has a current snapshot holds the manifests
\* of that snapshot's manifest list: when the list cannot be read, the load
\* fails instead of returning a Table with no manifests.
C13_NoSilentDefault ==
    \A h \in Handles :
        manifest_list(table[h].metadata).some
        => /\ get_manifests(table[h].metadata, store).ok
           /\ table[h].manifests = get_manifests(table[h].metadata, store).manifests

\* The table the transaction of handle h started on is backed by an object
\* store of its own and by a catalog at once.
BothBacked(h) ==
    /\ txn[h].before.backing.catalog
    /\ txn[h].before.backing.identifier
    /\ txn[h].before.backing.object_store

C15_VersionAndUuidChecked ==
    (call.fn = "from_json"
     /\ \/ call.doc.format_version = <<>>
        \/ call.doc.format_version \notin {<<"1">>, <<"2">>}
        \/ call.doc.table_uuid = <<bad_uuid>>)
    => call.result = <<>>

\* A format-version 1 document: it has the keys version 1 requires, schema
\* and partition-spec, and none of the keys version 2 added.
IsV1Document(doc) ==
    /\ doc.format_version = <<"1">>
    /\ doc.table_uuid # <<bad_uuid>>
    /\ doc.schema # <<>>
    /\ doc.partition_spec # <<>>
    /\ doc.last_sequence_number = <<>>
    /\ doc.refs = <<>>

\* C16: loading a format-version 1 document gives metadata with
\* last_sequence_number 0 and no refs, with current_schema_id, default_spec_id
\* and last_partition_id the document's values or else those derived from
\* the embedded schema and partition spec, and with no sort order when the
\* document has no sort-orders.
C16_UpgradeRules ==
    (call.fn = "from_json" /\ IsV1Document(call.doc))
    => /\ call.result # <<>>
       /\ LET doc == call.doc
              m == call.result[1]
          IN /\ m.last_sequence_number = 0
             /\ m.refs = <<>>
             /\ m.current_schema_id =
                    IF doc.current_schema_id # <<>> THEN doc.current_schema_id[1]
                    ELSE IF doc.schema[1].schema_id # <<>> THEN doc.schema[1].schema_id[1]
                    ELSE 0
             /\ m.default_spec_id =
                    IF doc.default_spec_id # <<>> THEN doc.default_spec_id[1] ELSE 0
             /\ m.last_partition_id =
                    IF doc.last_partition_id # <<>> THEN doc.last_partition_id[1]
                    ELSE Max({0} \cup {doc.partition_spec[1][i].field_id :
                                          i \in 1..Len(doc.partition_spec[1])})
             /\ doc.sort_orders = <<>> => m.sort_orders = <<>>

C18_UpgradeDeterministic ==
    (call.fn = "from_json_again" /\ variant(call.doc) = "V1")
    => call.again = call.result

\* C19: in the metadata of a TableBuilder, whatever schema it was given and
\* whatever partition specs were added, current_schema_id names one of the
\* schemas and default_spec_id one of the partition specs.
C19_IdsResolve ==
    call.fn = "TableBuilder"
    => /\ current_schema(call.metadata) # <<>>
       /\ default_spec(call.metadata) # <<>>

\* The segments of a string, told from the places of its separators: the
\* i-th segment lies between the (i-1)-th and the i-th separator.
separators(str) == {i \in 1..Len(str) : str[i] = SEPARATOR}

cut(str, i) ==
    IF i = 0 THEN 0
    ELSE IF i > Cardinality(separators(str)) THEN Len(str) + 1
    ELSE CHOOSE k \in separators(str) :
             Cardinality({j \in separators(str) : j <= k}) = i

segments(str) ==
    [i \in 1..(Cardinality(separators(str)) + 1) |->
        SubSeq(str, cut(str, i - 1) + 1, cut(str, i) - 1)]

\* The names given to try_new, directly or by parse.
names_of(c) == IF c.fn = "parse" THEN segments(c.identifier) ELSE c.names

AllButLast(names) == SubSeq(names, 1, Len(names) - 1)

Last(names) == names[Len(names)]

NoEmpty(names) == \A i \in 1..Len(names) : names[i] # <<>>

\* C20, as stated: parse takes the segments between the separators, all but
\* the last as namespace and the last as name, and the construction
\* succeeds exactly when the namespace is a non-empty sequence of non-empty
\* segments and the name is non-empty.
C20_NamespaceNonEmpty ==
    call.fn \in {"parse", "try_new"}
    => LET names == names_of(call) IN
       /\ call.result # <<>>
          <=> (Len(names) >= 2 /\ NoEmpty(names))
       /\ call.result # <<>>
          => call.result[1] = [namespace |-> AllButLast(names), name |-> Last(names)]

\* C20, amended: the construction succeeds exactly when there is a name and
\* no segment is empty, the namespace being all segments but the last, which
\* may be none; it fails for an empty sequence, an empty string, an empty
\* last segment and an empty namespace segment.
C20_ParseRule ==
    call.fn \in {"parse", "try_new"}
    => LET names == names_of(call) IN
       /\ call.result # <<>>
          <=> (Len(names) >= 1 /\ NoEmpty(names))
       /\ call.result # <<>>
          => call.result[1] = [namespace |-> AllButLast(names), name |-> Last(names)]

\* parse("a.b.a") has given the levels a, b and the name a.
C20_Witness ==
    /\ call.fn = "parse"
    /\ call.identifier = <<"a", SEPARATOR, "b", SEPARATOR, "a">>
    /\ call.result = <<[namespace |-> << <<"a">>, <<"b">> >>, name |-> <<"a">>]>>

\* The least number of bytes that hold a magnitude of the given bit count.
byte_width(bits) ==
    CHOOSE n \in 0..(bits \div 8 + 1) : 8 * n >= bits /\ (n = 0 \/ 8 * (n - 1) < bits)

\* 10^precision, lowest digit first.
ten_to(precision) == [i \in 1..(precision + 1) |-> IF i = precision + 1 THEN 1 ELSE 0]

\* a <= b for two numerals without leading zeros.
RECURSIVE numeral_leq(_, _)
numeral_leq(a, b) ==
    IF Len(a) # Len(b) THEN Len(a) < Len(b)
    ELSE IF a = <<>> THEN TRUE
    ELSE IF a[Len(a)] # b[Len(b)] THEN a[Len(a)] < b[Len(b)]
    ELSE numeral_leq(SubSeq(a, 1, Len(a) - 1), SubSeq(b, 1, Len(b) - 1))

\* A signed number of n bytes holds every number of that many digits:
\* 10^precision <= 2^(8n - 1) - 1; no byte holds no digit.
sufficient(n, precision) ==
    IF n = 0 THEN precision = 0
    ELSE numeral_leq(ten_to(precision), [powi(8 * n - 1) EXCEPT ![1] = @ - 1])

\* C21: Decimal::new succeeds exactly when the precision is at most 38, the
\* scale is at most the precision and the byte width of the value is
\* sufficient for the precision, and then holds what it was given.
C21_DecimalNew ==
    call.fn = "Decimal::new"
    => /\ call.result # <<>>
          <=> /\ call.precision <= 38
              /\ call.scale <= call.precision
              /\ sufficient(byte_width(call.bits), call.precision)
       /\ call.result # <<>>
          => call.result[1] = [bits |-> call.bits, precision |-> call.precision,
                               scale |-> call.scale]

\* A value of 16 bytes has been accepted with precision 38, and so the test
\* of the byte width has passed at the largest precision.
C21_Witness ==
    /\ call.fn = "Decimal::new"
    /\ call.precision = 38
    /\ byte_width(call.bits) = 16
    /\ call.result # <<>>

\* The name of the partition field in a record made by into_record.
partition_field_names(record) ==
    names_of_fields(get_field(get_field(record.v, "data_file").v, "partition").v)

\* C22: an entry made into a record under a partition field name carries
\* its partition value under that name, is written, and the record read
\* back gives an entry equal to the original.
C22_EntryRoundTrip ==
    call.fn = "write_and_read"
    => /\ partition_field_names(call.record) = <<call.partition_spec_name>>
       /\ call.written
       /\ call.result = <<call.entry>>

\* An entry with a partition value has gone through under the name date.
C22_Witness ==
    /\ call.fn = "write_and_read"
    /\ call.partition_spec_name = "date"
    /\ call.entry.data_file.partition.partition_spec_name = <<1>>
    /\ call.result # <<>>
    /\ call.result[1].data_file.partition.partition_spec_name = <<1>>

\* C23: a committed fast_append leaves a manifest list that is the list of
\* the previous snapshot, in the same order, followed by one new entry; a
\* fresh table has none, so k such commits leave k entries.
C23_ListGrowsByOne ==
    \A h \in Handles :
        (/\ txn[h].result = "Ok"
         /\ Fresh(h)
         /\ \E i \in 1..Len(txn[h].operations) : txn[h].operations[i].op = "NewFastAppend")
        => /\ Len(table[h].manifests) = Len(txn[h].before.manifests) + 1
           /\ IsPrefix(txn[h].before.manifests, table[h].manifests)

\* The calls of update_table the catalog received with this new location.
calls_with(metadata_file_location) ==
    {i \in 1..Len(catalog.received) :
        catalog.received[i].metadata_file_location = metadata_file_location}

\* C24: on a metastore table the metadata is put at a fresh path before the
\* catalog is called; update_table is called once, with that path and with
\* the location the handle held when the transaction started; the handle
\* becomes the returned table when the call succeeds and is not replaced
\* when the put or the call fails, and after a failed put no call is made.
C24_MetastoreCommit ==
    /\ overwritten = {}
    /\ \A h \in Handles :
           LET metadata_file_location == metastore_path(txn[h].uuid) IN
           /\ txn[h].pc = "metastore_put"
              => /\ metadata_file_location \in DOMAIN store
                 /\ store[metadata_file_location] = to_string(table[h].metadata)
                 /\ calls_with(metadata_file_location) = {}
           /\ txn[h].result \in {"Ok", "Conflict"}
              => /\ Cardinality(calls_with(metadata_file_location)) = 1
                 /\ \A i \in calls_with(metadata_file_location) :
                        /\ catalog.received[i].previous_metadata_file_location =
                               txn[h].before.metadata_location
                        /\ catalog.received[i].ok = (txn[h].result = "Ok")
           /\ txn[h].result = "Ok"
              => table[h] = new_metastore_table(from_str(store[metadata_file_location]),
                                                metadata_file_location, store)
           /\ txn[h].result \in {"Conflict", "PutErr"}
              => table[h] = increment_sequence_number(txn[h].before)
           /\ txn[h].result = "PutErr"
              => calls_with(metadata_file_location) = {}

\* One commit was accepted by the catalog and the other, started from the
\* same location, was rejected.
C24_Witness ==
    \E g, h \in Handles :
        /\ txn[g].result = "Ok"
        /\ catalog.location = metastore_path(txn[g].uuid)
        /\ txn[h].result = "Conflict"
        /\ txn[h].before.metadata_location = txn[g].before.metadata_location

\* C25: whether the reads of the manifests complete at the first poll or
\* suspend first, the stream yields the same: what it has yielded when it
\* ends is what it yields when no read suspends, every entry of every
\* retained manifest once and in manifest order.
C25_PendingSkipsNothing ==
    stream.ended
    => stream.yielded = collect(files(table["A"], stream.filter), store)

\* C26: the stream returns None only when every retained manifest has been
\* opened and drained, and after None no poll yields an entry.
C26_EndIsFinal ==
    stream.ended
    => /\ stream.manifest_list_iter = <<>>
       /\ stream.manifest_iter.rest = <<>>
       /\ stream.late = <<>>

Reverse(seq) == [i \in 1..Len(seq) |-> seq[Len(seq) + 1 - i]]

\* The snapshots met when parent_snapshot_id is followed from the snapshot
\* with the given id, each id looked up as current_snapshot looks it up; n
\* bounds the walk.
RECURSIVE follow_parents(_, _, _)
follow_parents(m, id, n) ==
    LET found == current_snapshot([m EXCEPT !.current_snapshot_id = id]) IN
    IF n = 0 \/ found = <<>> THEN <<>>
    ELSE found \o follow_parents(m, found[1].parent_snapshot_id, n - 1)

\* The metadata of the handles and of the canonical versions in the store.
held_and_committed_metadata ==
    {table[h].metadata : h \in Handles}
        \cup {from_str(store[p]) : p \in {q \in DOMAIN store : q.kind = "v"}}

\* new_snapshot has acted on the table of handle h in this step: it has
\* added one snapshot after the others, named the snapshot that was current
\* as its parent and made it the current one.
appended_one(h) ==
    LET before == table[h].metadata
        after == table'[h].metadata
    IN  (txn[h].pc = "open" /\ txn'[h].pc = "open" /\ after # before)
        => /\ Len(after.snapshots) = Len(before.snapshots) + 1
           /\ SubSeq(after.snapshots, 1, Len(before.snapshots)) = before.snapshots
           /\ after.snapshots[Len(after.snapshots)].parent_snapshot_id
                  = before.current_snapshot_id
           /\ after.current_snapshot_id
                  = <<after.snapshots[Len(after.snapshots)].snapshot_id>>

\* What following the parent ids from the current snapshot meets.
parent_chain(m) == follow_parents(m, m.current_snapshot_id, Len(m.snapshots) + 1)

distinct_ids(m) ==
    \A i, j \in 1..Len(m.snapshots) :
        m.snapshots[i].snapshot_id = m.snapshots[j].snapshot_id => i = j

C28_SequenceNumbers ==
    /\ \A h \in Handles :
           txn[h].pc = "open"
           => LET reserved == txn[h].before.metadata.last_sequence_number + 1
                  snapshots == table[h].metadata.snapshots
              IN  /\ table[h].metadata.last_sequence_number = reserved
                  /\ \A i \in 1..Len(snapshots) :
                         i > Len(txn[h].before.metadata.snapshots)
                         => snapshots[i].sequence_number = reserved
    /\ \A p \in {q \in DOMAIN store : q.kind = "v"} :
           LET m == from_str(store[p]) IN
           \A i \in 1..Len(m.snapshots) :
               /\ m.snapshots[i].sequence_number <= m.last_sequence_number
               /\ \A j \in 1..i : m.snapshots[j].sequence_number
                                      <= m.snapshots[i].sequence_number

\* C29: the ManifestFile that fast_append adds to the manifest list describes
\* the manifest just written: its manifest_path is the manifest's location
\* and the manifest is there with one entry per path, its added_files_count
\* is the number of paths, its partition_spec_id is the default spec id of
\* the table, and its added_snapshot_id and sequence_number are those of the
\* new snapshot.
C29_ManifestFileDescribes ==
    (call.fn = "execute" /\ call.ok) =>
        LET snapshots == call.metadata.snapshots
            snapshot == snapshots[Len(snapshots)]
            list == store[snapshot.manifest_list]
            manifest_file == list[Len(list)]
        IN  /\ manifest_file.manifest_path = manifest_path(snapshot.manifest_list.id)
            /\ manifest_file.manifest_path \in DOMAIN store
            /\ Len(store[manifest_file.manifest_path]) = Len(call.paths)
            /\ manifest_file.added_files_count = <<Len(call.paths)>>
            /\ manifest_file.partition_spec_id = call.metadata.default_spec_id
            /\ manifest_file.added_snapshot_id = snapshot.snapshot_id
            /\ manifest_file.sequence_number = <<snapshot.sequence_number>>

\* C30: commit is atomic with respect to its result.  When commit has
\* returned an error (of the put, the copy, the delete or the reload), the
\* transaction has not made its v<N>.metadata.json the canonical version; and
\* when it has, commit has returned Ok and the handle holds that version.
Errors == {"PutErr", "Conflict", "DeleteErr", "LoadErr"}

returned(h) == txn[h].pc = "idle" /\ txn[h].result # "none"

C30_CommitAtomic ==
    \A h \in Handles :
        /\ (returned(h) /\ txn[h].result \in Errors) => ~txn[h].canonical
        /\ (returned(h) /\ txn[h].canonical) =>
               /\ txn[h].result = "Ok"
               /\ table[h].metadata_location = final_path(txn[h].version)

====
